---- MODULE Spec2Model ----
(***************************************************************************)
(* A model of the SEO platform Python SDK (sdks/python/seo_platform):      *)
(* the client facade SEOPlatform with its optional realtime channel        *)
(* (a socketio.Client), its context-manager protocol, the HTTP transport   *)
(* request() and the resource facades built on it.                         *)
(*                                                                         *)
(* The calls the SDK makes into python-socketio and requests are modelled  *)
(* by the operators sio_* , session_request, raise_for_status and          *)
(* requote_uri, at the places client.py calls them.  A call that goes to   *)
(* the network (opening or closing the channel, an HTTP exchange) can      *)
(* succeed or fail; the outcome is an input of the action.                 *)
(***************************************************************************)
EXTENDS Integers, Sequences, FiniteSets, TLC

\* ------------------------------------------------------------------ bounds
MaxRegs == 2          \* on() registrations recorded per event name

\* ----------------------------------------------------------------- inputs
Events     == {"ranking:updated", "audit:completed"}
HandlerIds == {"h1", "h2"}
ProjectIds == {"p1", "p2"}
NoHandler  == "no-handler"
NoSio      == "None"            \* self.sio is None
SioClient  == "socketio.Client" \* self.sio is a socketio.Client
NetOpen    == {"ok", "refused"}
NetClose   == {"ok", "fail_still_open", "fail_closed"}

VARIABLES
    enable_websocket,  \* self.enable_websocket
    sio,               \* self.sio: NoSio or SioClient
    connected,         \* self.sio.connected (FALSE while there is no sio)
    handlers,          \* self.sio.handlers['/']: one handler per event name
    session_closed,    \* self.session.close() has been called
    block,             \* the with-statement: "out", "body", "left"
    registered,        \* history: handlers registered through on(), per event
    ever_opened,       \* history: a realtime connection was opened
    ever_sent,         \* history: a control message was emitted
    last,              \* the last call on the client and what it did
    http               \* the last call that went through request()

chan_vars == <<enable_websocket, sio, connected, handlers, session_closed,
               block, registered, ever_opened, ever_sent, last>>
vars == <<enable_websocket, sio, connected, handlers, session_closed,
          block, registered, ever_opened, ever_sent, last, http>>

\* What one call did: whether it raised, the channel state it found, the
\* messages it emitted, the connections it opened, the close calls it made,
\* the handlers it invoked.
NoCall ==
    [op |-> "none", arg |-> "", raised |-> FALSE, err |-> "",
     preSio |-> NoSio, preConn |-> FALSE, emitted |-> <<>>,
     opened |-> 0, closeCalls |-> 0, invoked |-> <<>>, bodyRaised |-> FALSE]

NoHttp == [op |-> "none", raised |-> FALSE]

\* --------------------------------------------------- python-socketio calls
\* self.sio.connect(url, auth=..., transports=[...]) (client.py 106-110):
\* socketio refuses a second connect on a connected client; otherwise the
\* network decides.
sio_connect(conn, net) ==
    IF conn
    THEN [raised |-> TRUE, err |-> "ConnectionError: Already connected",
          connected |-> TRUE, opened |-> 0]
    ELSE IF net = "ok"
    THEN [raised |-> FALSE, err |-> "", connected |-> TRUE, opened |-> 1]
    ELSE [raised |-> TRUE, err |-> "ConnectionError",
          connected |-> FALSE, opened |-> 0]

\* self.sio.disconnect() (client.py 115): one request to close the
\* connection; when it fails the error propagates and the connection is
\* either still open or gone.
sio_disconnect(net) ==
    CASE net = "ok" ->
           [raised |-> FALSE, err |-> "", connected |-> FALSE, closeCalls |-> 1]
      [] net = "fail_still_open" ->
           [raised |-> TRUE, err |-> "disconnect failed",
            connected |-> TRUE, closeCalls |-> 1]
      [] OTHER ->
           [raised |-> TRUE, err |-> "disconnect failed",
            connected |-> FALSE, closeCalls |-> 1]

\* self.sio.emit(event, data) (client.py 122, 129): queues one packet on the
\* open connection.
sio_emit(event, project_id) == <<[event |-> event, projectId |-> project_id]>>

\* self.sio.on(event) applied to a handler (client.py 143): socketio keeps
\* handlers[namespace][event] = handler, one handler per event name.
sio_on(hs, event, h) == [hs EXCEPT ![event] = h]

\* an event of this name arrives: socketio calls handlers[namespace][event]
\* when there is one.
sio_trigger_event(hs, event) ==
    IF hs[event] = NoHandler THEN <<>> ELSE <<hs[event]>>

\* --------------------------------------------------------------- __init__
\* client.py 58-83: sio is a socketio.Client exactly when enable_websocket.
Init ==
    /\ enable_websocket \in BOOLEAN
    /\ sio = IF enable_websocket THEN SioClient ELSE NoSio
    /\ connected = FALSE
    /\ handlers = [e \in Events |-> NoHandler]
    /\ session_closed = FALSE
    /\ block = "out"
    /\ registered = [e \in Events |-> <<>>]
    /\ ever_opened = FALSE
    /\ ever_sent = FALSE
    /\ last = NoCall
    /\ http = NoHttp

\* ------------------------------------------------------- realtime channel
\* The effect of each method, as a record: raised/err, the new value of
\* sio.connected, connections opened, close calls made, messages emitted.
Effect(raised, err, conn, opened, closeCalls, emitted) ==
    [raised |-> raised, err |-> err, connected |-> conn, opened |-> opened,
     closeCalls |-> closeCalls, emitted |-> emitted]

\* connect() that sets the channel up on demand instead of refusing.
connect_effect_LazyInit(s, conn, net) ==
    LET r == sio_connect(conn, net)
    IN Effect(r.raised, r.err, r.connected, r.opened, 0, <<>>)

\* client.py 101-110
connect_effect(s, conn, net) ==
    IF s = NoSio
    THEN Effect(TRUE, "RuntimeError: WebSocket not enabled", conn, 0, 0, <<>>)
    ELSE LET r == sio_connect(conn, net)
         IN Effect(r.raised, r.err, r.connected, r.opened, 0, <<>>)

\* disconnect() that does not look at sio.connected.
disconnect_effect_NoConnectedCheck(s, conn, net) ==
    IF s # NoSio
    THEN LET r == sio_disconnect(net)
         IN Effect(r.raised, r.err, r.connected, 0, r.closeCalls, <<>>)
    ELSE Effect(FALSE, "", conn, 0, 0, <<>>)

\* client.py 112-115
disconnect_effect(s, conn, net) ==
    IF s # NoSio /\ conn
    THEN LET r == sio_disconnect(net)
         IN Effect(r.raised, r.err, r.connected, 0, r.closeCalls, <<>>)
    ELSE Effect(FALSE, "", conn, 0, 0, <<>>)

\* subscribe_to_project() that does not look at sio.connected.
subscribe_effect_NoConnectedCheck(s, conn, project_id) ==
    IF s = NoSio
    THEN Effect(TRUE, "RuntimeError: WebSocket not connected", conn, 0, 0, <<>>)
    ELSE Effect(FALSE, "", conn, 0, 0, sio_emit("subscribe:project", project_id))

\* client.py 117-122
subscribe_effect(s, conn, project_id) ==
    IF s = NoSio \/ ~conn
    THEN Effect(TRUE, "RuntimeError: WebSocket not connected", conn, 0, 0, <<>>)
    ELSE Effect(FALSE, "", conn, 0, 0, sio_emit("subscribe:project", project_id))

\* unsubscribe_from_project() with the guard of subscribe_to_project.
unsubscribe_effect_Raises(s, conn, project_id) ==
    IF s = NoSio \/ ~conn
    THEN Effect(TRUE, "RuntimeError: WebSocket not connected", conn, 0, 0, <<>>)
    ELSE Effect(FALSE, "", conn, 0, 0, sio_emit("unsubscribe:project", project_id))

\* client.py 124-129
unsubscribe_effect(s, conn, project_id) ==
    IF s = NoSio \/ ~conn
    THEN Effect(FALSE, "", conn, 0, 0, <<>>)
    ELSE Effect(FALSE, "", conn, 0, 0, sio_emit("unsubscribe:project", project_id))

\* The record of a call that had effect eff.
Called(op, arg, eff) ==
    [op |-> op, arg |-> arg, raised |-> eff.raised, err |-> eff.err,
     preSio |-> sio, preConn |-> connected, emitted |-> eff.emitted,
     opened |-> eff.opened, closeCalls |-> eff.closeCalls,
     invoked |-> <<>>, bodyRaised |-> FALSE]

\* A channel method with effect eff has run.
Apply(op, arg, eff) ==
    /\ connected' = eff.connected
    /\ ever_opened' = (ever_opened \/ eff.opened > 0)
    /\ ever_sent' = (ever_sent \/ eff.emitted # <<>>)
    /\ last' = Called(op, arg, eff)

connect ==
    /\ \E net \in NetOpen : Apply("connect", "", connect_effect(sio, connected, net))
    /\ UNCHANGED <<enable_websocket, sio, handlers, session_closed, block,
                   registered, http>>

disconnect ==
    /\ \E net \in NetClose :
          Apply("disconnect", "", disconnect_effect(sio, connected, net))
    /\ UNCHANGED <<enable_websocket, sio, handlers, session_closed, block,
                   registered, http>>

subscribe_to_project ==
    /\ \E p \in ProjectIds :
          Apply("subscribe_to_project", p, subscribe_effect(sio, connected, p))
    /\ UNCHANGED <<enable_websocket, sio, handlers, session_closed, block,
                   registered, http>>

unsubscribe_from_project ==
    /\ \E p \in ProjectIds :
          Apply("unsubscribe_from_project", p, unsubscribe_effect(sio, connected, p))
    /\ UNCHANGED <<enable_websocket, sio, handlers, session_closed, block,
                   registered, http>>

\* client.py 131-143: @client.on(event) applied to handler h.
on_raises(s) == s = NoSio

on ==
    /\ \E e \in Events, h \in HandlerIds :
          /\ on_raises(sio) \/ Len(registered[e]) < MaxRegs
          /\ IF on_raises(sio)
             THEN /\ last' = Called("on", e,
                               Effect(TRUE, "RuntimeError: WebSocket not enabled",
                                      connected, 0, 0, <<>>))
                  /\ UNCHANGED <<handlers, registered>>
             ELSE /\ handlers' = sio_on(handlers, e, h)
                  /\ registered' = [registered EXCEPT ![e] = Append(@, h)]
                  /\ last' = Called("on", e, Effect(FALSE, "", connected, 0, 0, <<>>))
    /\ UNCHANGED <<enable_websocket, sio, connected, session_closed, block,
                   ever_opened, ever_sent, http>>

\* client.py 145-151: with a sio, both branches call self.sio.off, an
\* attribute socketio.Client does not have; without one, nothing happens.
off_effect(s, conn, handler) ==
    IF s # NoSio
    THEN Effect(TRUE, "AttributeError: 'Client' object has no attribute 'off'",
                conn, 0, 0, <<>>)
    ELSE Effect(FALSE, "", conn, 0, 0, <<>>)

off ==
    /\ \E e \in Events, h \in HandlerIds \cup {NoHandler} :
          Apply("off", e, off_effect(sio, connected, h))
    /\ UNCHANGED <<enable_websocket, sio, handlers, session_closed, block,
                   registered, http>>

\* The remote service pushes an event over the open connection: the
\* listener invokes what is registered for its name.
EventArrives ==
    /\ sio # NoSio /\ connected
    /\ \E e \in Events :
          last' = [Called("event", e, Effect(FALSE, "", connected, 0, 0, <<>>))
                     EXCEPT !.invoked = sio_trigger_event(handlers, e)]
    /\ UNCHANGED <<enable_websocket, sio, connected, handlers, session_closed,
                   block, registered, ever_opened, ever_sent, http>>

\* ------------------------------------------------------- context manager
\* __enter__ that connects without looking at enable_websocket.
enter_effect_AlwaysConnects(ew, s, conn, net) == connect_effect(s, conn, net)

\* client.py 207-211: `with client:` calls __enter__; when it raises, the
\* body does not run and __exit__ is not called.
enter_effect(ew, s, conn, net) ==
    IF ew THEN connect_effect(s, conn, net)
    ELSE Effect(FALSE, "", conn, 0, 0, <<>>)

__enter__ ==
    /\ block = "out"
    /\ \E net \in NetOpen :
          LET eff == enter_effect(enable_websocket, sio, connected, net)
          IN /\ Apply("__enter__", "", eff)
             /\ block' = IF eff.raised THEN "out" ELSE "body"
    /\ UNCHANGED <<enable_websocket, sio, handlers, session_closed, registered, http>>

\* client.py 213-217: the effect on the channel and whether
\* self.session.close() (217) was reached.
exit_effect(s, conn, net) ==
    LET d == IF s # NoSio /\ conn
             THEN disconnect_effect(s, conn, net)
             ELSE Effect(FALSE, "", conn, 0, 0, <<>>)
    IN [channel |-> d, session_close |-> ~d.raised]

\* The body of the with-statement ends, normally or by raising, and
\* __exit__ runs; it returns None, so a body error reaches the caller once
\* __exit__ is over.
__exit__ ==
    /\ block = "body"
    /\ \E bodyRaised \in BOOLEAN, net \in NetClose :
          LET x == exit_effect(sio, connected, net)
          IN /\ connected' = x.channel.connected
             /\ session_closed' = (session_closed \/ x.session_close)
             /\ last' = [Called("__exit__", "", x.channel)
                           EXCEPT !.bodyRaised = bodyRaised]
    /\ block' = "left"
    /\ UNCHANGED <<enable_websocket, sio, handlers, registered, ever_opened,
                   ever_sent, http>>

Next ==
    \/ connect
    \/ disconnect
    \/ subscribe_to_project
    \/ unsubscribe_from_project
    \/ on
    \/ off
    \/ EventArrives
    \/ __enter__
    \/ __exit__

Spec == Init /\ [][Next]_vars

\* ================================================================ transport
\* Strings that end up in a URL are sequences of tokens: the literal parts
\* of a path template are one token each, a caller's identifier is one
\* token per character.
MaxIdLen == 2         \* characters of an identifier

IdChars == {"a", "/", "?", "#", " "}
Ids == UNION {[1..n -> IdChars] : n \in 1..MaxIdLen}

BaseUrl == <<"https://api.seo-platform.com">>   \* client.py 41, 59
Version == "v1"                                 \* client.py 42, 60

\* str.lstrip("/")
RECURSIVE lstrip(_)
lstrip(t) == IF t # <<>> /\ Head(t) = "/" THEN lstrip(Tail(t)) ELSE t

\* client.py 175
build_url(endpoint) ==
    BaseUrl \o <<"/", "api", "/", Version, "/">> \o lstrip(endpoint)

\* requests prepares the URL it sends (client.py 178-184): characters that
\* cannot stand in a URL are percent-encoded, reserved ones ("/", "?", "#")
\* are left as they are.
requote_uri(url) ==
    [i \in DOMAIN url |-> IF url[i] = " " THEN "%20" ELSE url[i]]

\* The responses of the remote service and the failures of the exchange.
Statuses == {101, 200, 201, 204, 299, 301, 304, 400, 401, 403, 404, 429,
             500, 503, 599}
Bodies == {"", "{\"data\": []}", "<html>"}
Responses ==
    [kind : {"response"}, status : Statuses, retry_after : {"absent", "5"},
     body : Bodies]
    \cup [kind : {"timeout", "connection_error"}, status : {0},
          retry_after : {"absent"}, body : {""}]

\* response.json(): the decoded body, or a JSONDecodeError, which requests
\* (>= 2.28, setup.py 31) raises as a RequestException.
IsJson(body) == body = "{\"data\": []}"
json_decode(body) == "dict(data=list())"

\* response.raise_for_status() (client.py 197): HTTPError for 400..599.
raise_for_status(status) == 400 <= status /\ status < 600

NoValue == "no value"   \* the call raised
None == "None"

Outcome(calls, raised, err, hint, value) ==
    [calls |-> calls, raised |-> raised, err |-> err, hint |-> hint,
     value |-> value]

\* request() without the 429 branch: a 429 falls through to raise_for_status.
request_outcome_No429(resp) ==
    IF resp.kind # "response"
    THEN Outcome(1, TRUE, "API request failed", resp.kind, NoValue)
    ELSE IF resp.status = 401
    THEN Outcome(1, TRUE, "Authentication failed", "", NoValue)
    ELSE IF raise_for_status(resp.status)
    THEN Outcome(1, TRUE, "API request failed", "HTTPError", NoValue)
    ELSE IF resp.body = ""
    THEN Outcome(1, FALSE, "", "", None)
    ELSE IF IsJson(resp.body)
    THEN Outcome(1, FALSE, "", "", json_decode(resp.body))
    ELSE Outcome(1, TRUE, "API request failed", "JSONDecodeError", NoValue)

\* request() that tries a second time after a timeout or a 5xx.
request_outcome_Retry(resp) ==
    IF resp.kind # "response"
    THEN Outcome(2, TRUE, "API request failed", resp.kind, NoValue)
    ELSE IF resp.status = 429
    THEN Outcome(1, TRUE, "Rate limit exceeded",
                 IF resp.retry_after = "absent" THEN "unknown"
                 ELSE resp.retry_after, NoValue)
    ELSE IF resp.status = 401
    THEN Outcome(1, TRUE, "Authentication failed", "", NoValue)
    ELSE IF raise_for_status(resp.status)
    THEN Outcome(IF resp.status >= 500 THEN 2 ELSE 1, TRUE,
                 "API request failed", "HTTPError", NoValue)
    ELSE IF resp.body = ""
    THEN Outcome(1, FALSE, "", "", None)
    ELSE IF IsJson(resp.body)
    THEN Outcome(1, FALSE, "", "", json_decode(resp.body))
    ELSE Outcome(1, TRUE, "API request failed", "JSONDecodeError", NoValue)

\* client.py 177-201, for the exchange's outcome resp: the number of
\* session.request calls made and what the caller gets.
request_outcome(resp) ==
    IF resp.kind # "response"
    THEN Outcome(1, TRUE, "API request failed", resp.kind, NoValue)
    ELSE IF resp.status = 429
    THEN Outcome(1, TRUE, "Rate limit exceeded",
                 IF resp.retry_after = "absent" THEN "unknown"
                 ELSE resp.retry_after, NoValue)
    ELSE IF resp.status = 401
    THEN Outcome(1, TRUE, "Authentication failed", "", NoValue)
    ELSE IF raise_for_status(resp.status)
    THEN Outcome(1, TRUE, "API request failed", "HTTPError", NoValue)
    ELSE IF resp.body = ""
    THEN Outcome(1, FALSE, "", "", None)
    ELSE IF IsJson(resp.body)
    THEN Outcome(1, FALSE, "", "", json_decode(resp.body))
    ELSE Outcome(1, TRUE, "API request failed", "JSONDecodeError", NoValue)

EmptyDict == <<>>

\* A request() call made as op(id, kw): what was asked, the URL sent, the
\* outcome, and what op returns to its caller.
HttpCall(op, id, kw, rq, resp, returns) ==
    LET out == request_outcome(resp)
    IN [op |-> op, id |-> id, kw |-> kw, method |-> rq.method,
        endpoint |-> rq.endpoint, params |-> rq.params, json |-> rq.json,
        url |-> requote_uri(build_url(rq.endpoint)), resp |-> resp,
        calls |-> out.calls, raised |-> out.raised, err |-> out.err,
        hint |-> out.hint, value |-> out.value,
        ret |-> IF out.raised THEN NoValue
                ELSE IF returns THEN out.value ELSE None]

Req(method, endpoint, params, json) ==
    [method |-> method, endpoint |-> endpoint, params |-> params, json |-> json]

DirectEndpoints ==
    {<<"/", "rate-limit", "/", "status">>, <<"projects">>, <<"/", "/", "projects">>}

\* Calls are synchronous, one at a time: a call is made when the previous
\* one has been handed to its caller.
Idle == http.op = "none"

\* client.py 153-201, called by the SDK's user.
request ==
    /\ Idle
    /\ \E m \in {"GET", "POST"}, e \in DirectEndpoints, resp \in Responses :
          http' = HttpCall("request", <<>>, EmptyDict,
                           Req(m, e, EmptyDict, EmptyDict), resp, TRUE)
    /\ UNCHANGED chan_vars

\* client.py 203-205
get_rate_limit_status ==
    /\ Idle
    /\ \E resp \in Responses :
          http' = HttpCall("get_rate_limit_status", <<>>, EmptyDict,
                           Req("GET", <<"/", "rate-limit", "/", "status">>,
                               EmptyDict, EmptyDict), resp, TRUE)
    /\ UNCHANGED chan_vars

\* The caller has the result (or the error); the SDK keeps nothing of it.
Handed ==
    /\ ~Idle
    /\ http' = NoHttp
    /\ UNCHANGED chan_vars

\* ========================================================= resource facades
\* Keyword arguments are a function from the names the caller passed to
\* their values; values are written as text.  A name that is not in the
\* function was not passed and takes the default of the signature.
Arg(kw, name, default) == IF name \in DOMAIN kw THEN kw[name] ELSE default

\* Python truthiness of the values used here.
Truthy(v) == v \notin {"None", "", "[]", "0", "False"}

Put(d, key, value) == [k \in DOMAIN d \cup {key} |-> IF k = key THEN value ELSE d[k]]
PutIf(cond, d, key, value) == IF cond THEN Put(d, key, value) ELSE d

Facade(method, endpoint, params, json, returns) ==
    [method |-> method, endpoint |-> endpoint, params |-> params,
     json |-> json, returns |-> returns]

\* ---- resources/projects.py
\* 11-26
Projects_list(id, kw) ==
    LET limit == Arg(kw, "limit", "50")
        cursor == Arg(kw, "cursor", None)
        params == PutIf(Truthy(cursor), Put(EmptyDict, "limit", limit),
                        "cursor", cursor)
    IN Facade("GET", <<"/", "projects">>, params, EmptyDict, TRUE)

\* 28-38
Projects_get(id, kw) ==
    Facade("GET", <<"/", "projects", "/">> \o id, EmptyDict, EmptyDict, TRUE)

\* 40-68
Projects_create(id, kw) ==
    Facade("POST", <<"/", "projects">>, EmptyDict,
           [name |-> kw["name"], domain |-> kw["domain"],
            targetCountry |-> kw["target_country"],
            targetLanguage |-> kw["target_language"]], TRUE)

\* 70-105
Projects_update(id, kw) ==
    LET name == Arg(kw, "name", None)
        domain == Arg(kw, "domain", None)
        target_country == Arg(kw, "target_country", None)
        target_language == Arg(kw, "target_language", None)
        is_active == Arg(kw, "is_active", None)
        d1 == PutIf(name # None, EmptyDict, "name", name)
        d2 == PutIf(domain # None, d1, "domain", domain)
        d3 == PutIf(target_country # None, d2, "targetCountry", target_country)
        d4 == PutIf(target_language # None, d3, "targetLanguage", target_language)
        data == PutIf(is_active # None, d4, "isActive", is_active)
    IN Facade("PUT", <<"/", "projects", "/">> \o id, EmptyDict, data, TRUE)

\* 107-114
Projects_delete(id, kw) ==
    Facade("DELETE", <<"/", "projects", "/">> \o id, EmptyDict, EmptyDict, FALSE)

\* ---- resources/keywords.py
\* 11-21
Keywords_list(id, kw) ==
    Facade("GET", <<"/", "projects", "/">> \o id \o <<"/", "keywords">>,
           EmptyDict, EmptyDict, TRUE)

\* keywords.get without its `return`.
Keywords_get_NoReturn(id, kw) ==
    Facade("GET", <<"/", "keywords", "/">> \o id, EmptyDict, EmptyDict, FALSE)

\* 23-33
Keywords_get(id, kw) ==
    Facade("GET", <<"/", "keywords", "/">> \o id, EmptyDict, EmptyDict, TRUE)

\* 35-60
Keywords_create(id, kw) ==
    LET tags == Arg(kw, "tags", None)
        data == PutIf(Truthy(tags), Put(EmptyDict, "keyword", kw["keyword"]),
                      "tags", tags)
    IN Facade("POST", <<"/", "projects", "/">> \o id \o <<"/", "keywords">>,
              EmptyDict, data, TRUE)

\* 62-69
Keywords_delete(id, kw) ==
    Facade("DELETE", <<"/", "keywords", "/">> \o id, EmptyDict, EmptyDict, FALSE)

\* 71-86
Keywords_suggestions(id, kw) ==
    Facade("GET", <<"/", "keywords", "/", "suggestions">>,
           Put(Put(EmptyDict, "seed", kw["seed"]), "limit", Arg(kw, "limit", "10")),
           EmptyDict, TRUE)

\* ---- resources/rankings.py
\* 11-32
Rankings_list(id, kw) ==
    Facade("GET", <<"/", "projects", "/">> \o id \o <<"/", "rankings">>,
           Put(Put(EmptyDict, "limit", Arg(kw, "limit", "100")),
               "offset", Arg(kw, "offset", "0")),
           EmptyDict, TRUE)

\* 34-49
Rankings_history(id, kw) ==
    Facade("GET",
           <<"/", "keywords", "/">> \o id \o <<"/", "rankings", "/", "history">>,
           Put(EmptyDict, "days", Arg(kw, "days", "30")), EmptyDict, TRUE)

\* 51-66
Rankings_track(id, kw) ==
    Facade("POST",
           <<"/", "projects", "/">> \o id \o <<"/", "rankings", "/", "track">>,
           EmptyDict, Put(EmptyDict, "keywordIds", kw["keyword_ids"]), TRUE)

\* ---- resources/audits.py
\* 11-21
Audits_list(id, kw) ==
    Facade("GET", <<"/", "projects", "/">> \o id \o <<"/", "audits">>,
           EmptyDict, EmptyDict, TRUE)

\* 23-33
Audits_get(id, kw) ==
    Facade("GET", <<"/", "audits", "/">> \o id, EmptyDict, EmptyDict, TRUE)

\* audits.start that always puts maxPages in the body.
Audits_start_AlwaysMaxPages(id, kw) ==
    Facade("POST", <<"/", "projects", "/">> \o id \o <<"/", "audits">>,
           EmptyDict, Put(EmptyDict, "maxPages", Arg(kw, "max_pages", None)), TRUE)

\* 35-54
Audits_start(id, kw) ==
    LET max_pages == Arg(kw, "max_pages", None)
    IN Facade("POST", <<"/", "projects", "/">> \o id \o <<"/", "audits">>,
              EmptyDict, PutIf(max_pages # None, EmptyDict, "maxPages", max_pages),
              TRUE)

\* 56-63
Audits_cancel(id, kw) ==
    Facade("POST", <<"/", "audits", "/">> \o id \o <<"/", "cancel">>,
           EmptyDict, EmptyDict, FALSE)

\* 65-75
Audits_latest(id, kw) ==
    Facade("GET", <<"/", "projects", "/">> \o id \o <<"/", "audits", "/", "latest">>,
           EmptyDict, EmptyDict, TRUE)

\* ---- resources/backlinks.py
\* 11-34
Backlinks_list(id, kw) ==
    LET status == Arg(kw, "status", None)
    IN Facade("GET", <<"/", "projects", "/">> \o id \o <<"/", "backlinks">>,
              PutIf(Truthy(status), EmptyDict, "status", status), EmptyDict, TRUE)

\* 36-46
Backlinks_stats(id, kw) ==
    Facade("GET", <<"/", "projects", "/">> \o id \o <<"/", "backlinks", "/", "stats">>,
           EmptyDict, EmptyDict, TRUE)

\* 48-55
Backlinks_refresh(id, kw) ==
    Facade("POST",
           <<"/", "projects", "/">> \o id \o <<"/", "backlinks", "/", "refresh">>,
           EmptyDict, EmptyDict, FALSE)

\* The methods of each facade, the identifier each takes, and the
\* parameters of each signature.
ProjectsMethods == {"projects.list", "projects.get", "projects.create",
                    "projects.update", "projects.delete"}
KeywordsMethods == {"keywords.list", "keywords.get", "keywords.create",
                    "keywords.delete", "keywords.suggestions"}
RankingsMethods == {"rankings.list", "rankings.history", "rankings.track"}
AuditsMethods == {"audits.list", "audits.get", "audits.start", "audits.cancel",
                  "audits.latest"}
BacklinksMethods == {"backlinks.list", "backlinks.stats", "backlinks.refresh"}
Methods == ProjectsMethods \cup KeywordsMethods \cup RankingsMethods
           \cup AuditsMethods \cup BacklinksMethods

TakesId(m) == m \notin {"projects.list", "projects.create", "keywords.suggestions"}

RequiredParams(m) ==
    CASE m = "projects.create" -> {"name", "domain", "target_country",
                                   "target_language"}
      [] m = "keywords.create" -> {"keyword"}
      [] m = "keywords.suggestions" -> {"seed"}
      [] m = "rankings.track" -> {"keyword_ids"}
      [] OTHER -> {}

\* The parameters that have a default in the signature.
OptionalParams(m) ==
    CASE m = "projects.list" -> {"limit", "cursor"}
      [] m = "projects.update" -> {"name", "domain", "target_country",
                                   "target_language", "is_active"}
      [] m = "keywords.create" -> {"tags"}
      [] m = "keywords.suggestions" -> {"limit"}
      [] m = "rankings.list" -> {"limit", "offset"}
      [] m = "rankings.history" -> {"days"}
      [] m = "audits.start" -> {"max_pages"}
      [] m = "backlinks.list" -> {"status"}
      [] OTHER -> {}

\* Of those, the ones whose default is a value rather than None
\* (projects.py 11, keywords.py 71, rankings.py 14-15 and 34).
DefaultedParams(m) ==
    CASE m = "projects.list" -> {"limit"}
      [] m = "keywords.suggestions" -> {"limit"}
      [] m = "rankings.list" -> {"limit", "offset"}
      [] m = "rankings.history" -> {"days"}
      [] OTHER -> {}

DefaultOf(m, name) ==
    CASE m = "projects.list" /\ name = "limit" -> "50"
      [] m = "keywords.suggestions" /\ name = "limit" -> "10"
      [] m = "rankings.list" /\ name = "limit" -> "100"
      [] m = "rankings.list" /\ name = "offset" -> "0"
      [] m = "rankings.history" /\ name = "days" -> "30"
      [] OTHER -> None

\* The key a parameter is sent under.
WireKey(name) ==
    CASE name = "target_country" -> "targetCountry"
      [] name = "target_language" -> "targetLanguage"
      [] name = "is_active" -> "isActive"
      [] name = "max_pages" -> "maxPages"
      [] name = "keyword_ids" -> "keywordIds"
      [] OTHER -> name

\* The values a caller passes.
ValuesOf(name) ==
    CASE name = "cursor" -> {"", "c1"}
      [] name = "status" -> {"", "active"}
      [] name = "tags" -> {"[]", "['t']"}
      [] name = "max_pages" -> {"0", "5"}
      [] name = "is_active" -> {"False"}
      [] name \in {"limit", "offset", "days"} -> {"7"}
      [] OTHER -> {"x"}

RECURSIVE KwOver(_)
KwOver(names) ==
    IF names = {} THEN {EmptyDict}
    ELSE LET n == CHOOSE x \in names : TRUE
         IN {Put(f, n, v) : f \in KwOver(names \ {n}), v \in ValuesOf(n)}

KwArgs(m) ==
    UNION {KwOver(RequiredParams(m) \cup S) : S \in SUBSET OptionalParams(m)}

IdsOf(m) == IF TakesId(m) THEN Ids ELSE {<<>>}

Build(m, id, kw) ==
    CASE m = "projects.list" -> Projects_list(id, kw)
      [] m = "projects.get" -> Projects_get(id, kw)
      [] m = "projects.create" -> Projects_create(id, kw)
      [] m = "projects.update" -> Projects_update(id, kw)
      [] m = "projects.delete" -> Projects_delete(id, kw)
      [] m = "keywords.list" -> Keywords_list(id, kw)
      [] m = "keywords.get" -> Keywords_get(id, kw)
      [] m = "keywords.create" -> Keywords_create(id, kw)
      [] m = "keywords.delete" -> Keywords_delete(id, kw)
      [] m = "keywords.suggestions" -> Keywords_suggestions(id, kw)
      [] m = "rankings.list" -> Rankings_list(id, kw)
      [] m = "rankings.history" -> Rankings_history(id, kw)
      [] m = "rankings.track" -> Rankings_track(id, kw)
      [] m = "audits.list" -> Audits_list(id, kw)
      [] m = "audits.get" -> Audits_get(id, kw)
      [] m = "audits.start" -> Audits_start(id, kw)
      [] m = "audits.cancel" -> Audits_cancel(id, kw)
      [] m = "audits.latest" -> Audits_latest(id, kw)
      [] m = "backlinks.list" -> Backlinks_list(id, kw)
      [] m = "backlinks.stats" -> Backlinks_stats(id, kw)
      [] m = "backlinks.refresh" -> Backlinks_refresh(id, kw)

\* The exchanges a facade call is tried with.
FacadeResponses ==
    {r \in Responses :
        \/ r.kind = "timeout"
        \/ /\ r.kind = "response"
           /\ r.retry_after = "absent"
           /\ <<r.status, r.body>> \in {<<200, "{\"data\": []}">>, <<204, "">>,
                                        <<404, "<html>">>}}

\* One method of a facade is called: it builds its request and hands it to
\* client.request.
Invoke(ms) ==
    /\ Idle
    /\ \E m \in ms :
       \E id \in IdsOf(m), kw \in KwArgs(m), resp \in FacadeResponses :
          LET f == Build(m, id, kw)
          IN http' = HttpCall(m, id, kw,
                              Req(f.method, f.endpoint, f.params, f.json),
                              resp, f.returns)
    /\ UNCHANGED chan_vars

Projects == Invoke(ProjectsMethods)
Keywords == Invoke(KeywordsMethods)
Rankings == Invoke(RankingsMethods)
Audits == Invoke(AuditsMethods)
Backlinks == Invoke(BacklinksMethods)

NextHttp ==
    \/ request
    \/ get_rate_limit_status
    \/ Projects
    \/ Keywords
    \/ Rankings
    \/ Audits
    \/ Backlinks
    \/ Handed

SpecHttp == Init /\ [][NextHttp]_vars

\* ================================================================== claims
\* The channel state a call found.
WasUsable == last.preSio # NoSio /\ last.preConn

\* C1: once __exit__ has run (realtime enabled or not, body raised or not),
\* the realtime channel is not connected and the HTTP session is closed, on
\* every path through __exit__, the one where closing the channel fails
\* included.
C1_ExitReleasesEverything ==
    last.op = "__exit__" => (~connected /\ session_closed)

\* C2: subscribe_to_project on a disabled or not connected channel raises
\* and emits no message; it emits subscribe:project only when the channel
\* was connected at the call.
C2_SubscribeNeedsConnection ==
    last.op = "subscribe_to_project" =>
        /\ ~WasUsable => (last.raised /\ last.emitted = <<>>
                          /\ last.opened = 0 /\ connected = last.preConn)
        /\ WasUsable =>
              (~last.raised /\ last.emitted =
                   <<[event |-> "subscribe:project", projectId |-> last.arg]>>)

C2_Witness ==
    /\ last.op = "subscribe_to_project"
    /\ last.preSio = SioClient /\ ~last.preConn
    /\ last.raised /\ ever_opened

\* C3: when two handlers were registered through on() for one event name
\* and an event of that name arrives, both are invoked, in registration
\* order, once each.
C3_BothHandlersInvoked ==
    (/\ last.op = "event"
     /\ Len(registered[last.arg]) = 2
     /\ registered[last.arg][1] # registered[last.arg][2])
    => last.invoked = registered[last.arg]

C9_UnsubscribeQuietWhenOffline ==
    last.op = "unsubscribe_from_project" =>
        /\ ~last.raised
        /\ connected = last.preConn
        /\ last.opened = 0 /\ last.closeCalls = 0
        /\ ~WasUsable => last.emitted = <<>>
        /\ WasUsable =>
              last.emitted =
                  <<[event |-> "unsubscribe:project", projectId |-> last.arg]>>

C9_Witness ==
    /\ last.op = "unsubscribe_from_project"
    /\ last.preSio = SioClient /\ ~last.preConn /\ ever_opened
    /\ last.emitted = <<>> /\ ~last.raised

\* C10 as stated: from any channel state disconnect() never raises, closes
\* the connection at most once, and leaves the channel not connected.
C10_DisconnectNeverRaises ==
    last.op = "disconnect" =>
        (~last.raised /\ last.closeCalls <= 1 /\ ~connected)

\* A disconnect() made in the present state does nothing at all.
DisconnectIsNoOp ==
    \A net \in NetClose :
        disconnect_effect(sio, connected, net) =
            Effect(FALSE, "", connected, 0, 0, <<>>)

\* C10, amended: disconnect() asks for the connection to be closed exactly
\* once when the channel is connected and not at all otherwise; it raises
\* only when that close fails; when it returns the channel is not connected
\* and a further disconnect() does nothing and does not raise.
C10_DisconnectIdempotent ==
    last.op = "disconnect" =>
        /\ last.closeCalls = (IF WasUsable THEN 1 ELSE 0)
        /\ last.raised => last.closeCalls = 1
        /\ ~last.raised => (~connected /\ DisconnectIsNoOp)

C10_Witness ==
    /\ last.op = "disconnect"
    /\ last.preSio = SioClient /\ ~last.preConn /\ ever_opened
    /\ ~last.raised /\ ~connected

\* ---- transport
Answered == http.op # "none" /\ http.resp.kind = "response"

\* What request() does with a status that is neither 429 nor 401 nor an
\* error status: the empty result for an empty body, the decoded body for a
\* JSON body, a request failure for a body that is not JSON.
HandledAsSuccess ==
    /\ http.resp.body = "" => (~http.raised /\ http.value = None)
    /\ IsJson(http.resp.body) =>
          (~http.raised /\ http.value = json_decode(http.resp.body))
    /\ (http.resp.body # "" /\ ~IsJson(http.resp.body)) =>
          (http.raised /\ http.err = "API request failed")

RateLimitAndAuth ==
    /\ http.resp.status = 429 =>
          /\ http.raised /\ http.err = "Rate limit exceeded"
          /\ http.value = NoValue
          /\ http.resp.retry_after # "absent" => http.hint = http.resp.retry_after
    /\ http.resp.status = 401 =>
          (http.raised /\ http.err = "Authentication failed"
           /\ http.value = NoValue)

\* C5 as stated: 429 is a rate-limit failure carrying Retry-After, 401 an
\* authentication failure, every other status outside 200-299 (1xx and 3xx
\* too) a generic request failure that returns nothing, a 2xx with an empty
\* body returns None and a 2xx with a (JSON) body the decoded body.
C5_StatusDecidesOutcome_AllNon2xxFail ==
    Answered =>
        /\ RateLimitAndAuth
        /\ (http.resp.status \notin {429, 401}
            /\ ~(200 <= http.resp.status /\ http.resp.status <= 299)) =>
              (http.raised /\ http.err = "API request failed"
               /\ http.value = NoValue)
        /\ (200 <= http.resp.status /\ http.resp.status <= 299
            /\ (http.resp.body = "" \/ IsJson(http.resp.body))) =>
              HandledAsSuccess

\* C5, amended: the statuses that fail as a generic request failure are the
\* other statuses in 400-599; a 1xx or 3xx status is handled like a 2xx:
\* None for an empty body, the decoded body for a JSON body (and a request
\* failure for a body that does not decode).
C5_StatusDecidesOutcome ==
    Answered =>
        /\ RateLimitAndAuth
        /\ (http.resp.status \notin {429, 401}
            /\ 400 <= http.resp.status /\ http.resp.status <= 599) =>
              (http.raised /\ http.err = "API request failed"
               /\ http.value = NoValue)
        /\ http.resp.status < 400 => HandledAsSuccess

C5_Witness ==
    /\ http.op = "request"
    /\ http.resp.kind = "response" /\ http.resp.status = 429
    /\ http.resp.retry_after = "5"
    /\ http.raised /\ http.hint = "5"

\* The exchange failed: no answer, or an answer with an error status.
ExchangeFailed ==
    \/ http.resp.kind # "response"
    \/ http.resp.status \in {429, 401}
    \/ (400 <= http.resp.status /\ http.resp.status <= 599)

\* C6: every request() makes exactly one outbound HTTP call, whatever the
\* outcome; a failure is raised to the caller after that one attempt and is
\* never turned into a returned value.
C6_OneAttemptFailuresRaised ==
    http.op # "none" =>
        /\ http.calls = 1
        /\ ExchangeFailed =>
              (http.raised /\ http.value = NoValue /\ http.ret = NoValue)

C6_Witness ==
    /\ http.op = "request" /\ http.resp.kind = "timeout"
    /\ http.calls = 1 /\ http.raised

\* ---- resource facades
FacadeCalled == http.op \in Methods

SentKeys == DOMAIN http.params \cup DOMAIN http.json
SentValue(key) ==
    IF key \in DOMAIN http.params THEN http.params[key] ELSE http.json[key]
NotPassed == OptionalParams(http.op) \ DOMAIN http.kw

\* C7 as stated: for every resource method and every optional parameter
\* (the defaulted ones included), a parameter the caller did not pass is
\* not a key of the outgoing query/body.
C7_OmittedParamsAbsent_DefaultedToo ==
    FacadeCalled => \A n \in NotPassed : WireKey(n) \notin SentKeys

\* C7, amended: a parameter whose default is None is not a key of the
\* outgoing query/body when the caller does not pass it; a parameter with a
\* default value (limit, offset, days) is sent with that default.
C7_OmittedParamsAbsent ==
    FacadeCalled =>
        \A n \in NotPassed :
            IF n \in DefaultedParams(http.op)
            THEN WireKey(n) \in SentKeys
                 /\ SentValue(WireKey(n)) = DefaultOf(http.op, n)
            ELSE WireKey(n) \notin SentKeys

C7_Witness ==
    /\ http.op = "projects.update"
    /\ DOMAIN http.kw = {"name", "is_active"}
    /\ DOMAIN http.json = {"name", "isActive"}

\* The part of a URL before its query ("?") and fragment ("#").
RECURSIVE PathOf(_)
PathOf(url) ==
    IF url = <<>> \/ Head(url) \in {"?", "#"} THEN <<>>
    ELSE <<Head(url)>> \o PathOf(Tail(url))

Slashes(path) == Cardinality({i \in DOMAIN path : path[i] = "/"})

\* Percent-encoding of an identifier as one path segment.
url_escape(id) ==
    [i \in DOMAIN id |->
        CASE id[i] = "/" -> "%2F" [] id[i] = "?" -> "%3F"
          [] id[i] = "#" -> "%23" [] id[i] = " " -> "%20" [] OTHER -> id[i]]

\* C8: for every method that takes an identifier and every identifier, the
\* path of the request holds the identifier as one URL-escaped segment, and
\* has as many segments as the method's template.
C8_IdentifierIsOneEscapedSegment ==
    (FacadeCalled /\ TakesId(http.op)) =>
        LET want == build_url(Build(http.op, url_escape(http.id), http.kw).endpoint)
        IN /\ PathOf(http.url) = want
           /\ Slashes(PathOf(http.url)) = Slashes(want)

\* The methods whose body calls client.request without `return`
\* (projects.py 114, keywords.py 69, audits.py 63, backlinks.py 55).
NoReturnMethods ==
    {"projects.delete", "keywords.delete", "audits.cancel", "backlinks.refresh"}

\* C11 as stated: every facade method (projects.delete, keywords.delete,
\* audits.cancel and backlinks.refresh included) makes exactly one request
\* and returns that call's result to its caller unmodified.
C11_FacadeReturnsResult_AllMethods ==
    FacadeCalled =>
        /\ http.calls = 1
        /\ http.ret = http.value

\* C11, amended: every facade method makes exactly one request and passes
\* its failure on; every method returns the result unmodified except
\* projects.delete, keywords.delete, audits.cancel and backlinks.refresh,
\* which drop it and return None.
C11_FacadeReturnsResult ==
    FacadeCalled =>
        /\ http.calls = 1
        /\ http.method = Build(http.op, http.id, http.kw).method
        /\ http.raised => http.ret = NoValue
        /\ ~http.raised =>
              http.ret = (IF http.op \in NoReturnMethods THEN None
                          ELSE http.value)

C11_Witness ==
    /\ http.op = "audits.cancel"
    /\ ~http.raised
    /\ http.value = json_decode(http.resp.body)
    /\ http.ret = None

====
